---------------------------- MODULE Spec2Model ----------------------------
(***************************************************************************)
(* A model of nifipy/components.py: a client library that drives a NiFi    *)
(* server over REST.  The remote server holds, for every component, a      *)
(* state and a revision version; the library's calls are sequences of      *)
(* HTTP requests, one request in flight per call.  Each request is one     *)
(* atomic step (the server handles it and answers), so calls of different  *)
(* clients interleave between requests.                                    *)
(***************************************************************************)
EXTENDS Integers, Sequences, FiniteSets, TLC

(***************************************************************************)
(* Bounds of the model.                                                    *)
(***************************************************************************)
NumClients == 2
MaxVersion == 2
MaxInitVersion == 1
MaxCalls == 3
MaxRefs == 3
MaxListing == 3

Clients == 1..NumClients
Main == CHOOSE c \in Clients : \A d \in Clients : c <= d

(***************************************************************************)
(* Component types and endpoint templates (components.py:10-35).  A URL is *)
(* the sequence of its path segments; a template that ends in "/" ends in  *)
(* an empty segment, which a sub-path appended to the url replaces.        *)
(***************************************************************************)
BASE == "Base"
PROCESSOR == "Processor"
FLOW == "Flow"
CONTROLLER_SERVICE == "Controller Service"

url_base == "http://nifi:9090"

COMPONENT_ENDPOINT_TEMPLATES(component_type, component_id) ==
    CASE component_type = BASE -> <<url_base, "nifi-api">>
      [] component_type = PROCESSOR ->
            <<url_base, "nifi-api", "processors", component_id>>
      [] component_type = CONTROLLER_SERVICE ->
            <<url_base, "nifi-api", "controller-services", component_id>>
      [] component_type = FLOW ->
            <<url_base, "nifi-api", "flow", "process-groups", component_id, "">>

\* NifiComponent.__init__: the component's url, resolved once.
ComponentUrl(component_type, component_id) ==
    COMPONENT_ENDPOINT_TEMPLATES(component_type, component_id)

\* FlowProcessGroup.get_controller_services: self.url + endpoint.
ControllerServicesUrl(group_id) ==
    [ComponentUrl(FLOW, group_id) EXCEPT ![6] = "controller-services"]

(***************************************************************************)
(* The remote side: ids, states, and what the server holds.                *)
(***************************************************************************)
Procs == {"p1", "p2"}
Services == {"s1", "s2", "s3"}
Svc == "s1"
Proc == "p1"
Group == "root"
Components == Procs \cup Services

ProcStates == {"STOPPED", "RUNNING", "DISABLED"}
ServiceStates == {"ENABLED", "DISABLED"}
States == ProcStates \cup ServiceStates
StatesOf(id) == IF id \in Procs THEN ProcStates ELSE ServiceStates

None == "None"
Names == {"dbcp", "cache"}
PropNames == {"url", "user"}
Values == {"a", "b"}

VARIABLES
    state,      \* remote: component id -> state
    version,    \* remote: component id -> revision version
    props,      \* remote: the controller service Svc's properties map
    refs,       \* remote: Svc's referencingComponents list
    names,      \* remote: controller service id -> name
    listing,    \* remote: the group's controllerServices list (ids)
    flowState,  \* remote: the flow process group's scheduled state
    pc,         \* client -> position in its current call
    call,       \* client -> the current call's arguments
    rd,         \* client -> the call's local dictionary (request_dict)
    loc,        \* client -> the call's other locals (lists, cursor)
    ret,        \* client -> the last call's return value
    sent,       \* client -> the transport's record: requests with answers
    hist        \* the calls started, with the remote state each found

remote == <<state, version, props, refs, names, listing, flowState>>
vars == <<state, version, props, refs, names, listing, flowState,
          pc, call, rd, loc, ret, sent, hist>>

NoDict == [none |-> TRUE]
NoLoc == [none |-> TRUE]

(***************************************************************************)
(* What the server answers.  A read of a component returns its entity; a   *)
(* versioned write is accepted only when it carries the current version,   *)
(* and an accepted write is applied and the version bumped.  The server    *)
(* may also refuse a well-versioned write for reasons of its own.          *)
(***************************************************************************)
Resource(url) == url[4]

Entity(id) ==
    IF id \in Procs
    THEN [component |-> [id |-> id, state |-> state[id]],
          revision |-> [version |-> version[id]]]
    ELSE [component |->
             [id |-> id, name |-> names[id], state |-> state[id],
              properties |-> IF id = Svc THEN props ELSE <<>>,
              referencingComponents |->
                  IF id = Svc
                  THEN [i \in 1..Len(refs) |-> [component |-> refs[i]]]
                  ELSE <<>>],
          revision |-> [version |-> version[id]]]

Accepts(id, data, refuse) ==
    /\ ~refuse
    /\ "revision" \in DOMAIN data
    /\ data.revision.version = version[id]
    /\ data.component.state \in StatesOf(id)

Status(accepted) == IF accepted THEN 200 ELSE 409

Ok(json) == [raised |-> FALSE, status |-> 200, json |-> json]
Get(url, resp) == [verb |-> "GET", url |-> url, resp |-> resp]
Write(verb, url, data, status) ==
    [verb |-> verb, url |-> url, data |-> data,
     resp |-> [raised |-> FALSE, status |-> status]]

Record(c, request) == sent' = [sent EXCEPT ![c] = Append(@, request)]
IsWrite(request) == request.verb \in {"POST", "PUT"}
Last(s) == s[Len(s)]

(***************************************************************************)
(* NifiConnection.__init__ (39-47): one GET of the base endpoint inside a  *)
(* try/except; _get (75-76) returns whatever response the transport gives  *)
(* and raises only when the transport does.                                *)
(***************************************************************************)
ProbeOutcomes ==
    {[raised |-> TRUE, status |-> 0]} \cup
    {[raised |-> FALSE, status |-> s] : s \in {200, 404, 500}}

ProbeFailsOnStatus(outcome) == outcome.raised \/ outcome.status # 200

ProbeFails(outcome) == outcome.raised

Construct(c) ==
    /\ pc[c] = "new"
    /\ \E outcome \in ProbeOutcomes :
          /\ Record(c, Get(COMPONENT_ENDPOINT_TEMPLATES(BASE, None), outcome))
          /\ pc' = [pc EXCEPT ![c] =
                       IF ProbeFails(outcome) THEN "failed" ELSE "idle"]
    /\ UNCHANGED <<remote, call, rd, loc, ret, hist>>

(***************************************************************************)
(* NifiConnection.get_info / get_state / change_state (87-127).            *)
(***************************************************************************)
get_info(url) == Entity(Resource(url))

get_state_default(url) ==
    LET response_dict == get_info(url) IN
    [component |-> [id |-> response_dict.component.id,
                    state |-> response_dict.component.state],
     revision |-> [version |-> 0]]

get_state(url) ==
    LET response_dict == get_info(url) IN
    [component |-> [id |-> response_dict.component.id,
                    state |-> response_dict.component.state],
     revision |-> [version |-> response_dict.revision.version]]

\* Python's truth value of the forbidden_initial_state argument (117).
Truthy(v) == v # None /\ v # ""

NeverForbidden(request_dict, forbidden_initial_state) == FALSE

IsForbidden(request_dict, forbidden_initial_state) ==
    /\ Truthy(forbidden_initial_state)
    /\ request_dict.component.state = forbidden_initial_state

\* line 116: request_dict = self.get_state(url)
GetState(c) ==
    /\ pc[c] = "get_state"
    /\ rd' = [rd EXCEPT ![c] = get_state(call[c].url)]
    /\ Record(c, Get(call[c].url, Ok(get_info(call[c].url))))
    /\ pc' = [pc EXCEPT ![c] = "change_state"]
    /\ UNCHANGED <<remote, call, loc, ret, hist>>

Returned(c, after) ==
    /\ pc' = [pc EXCEPT ![c] = after]
    /\ rd' = [rd EXCEPT ![c] = NoDict]

\* lines 117-121: the forbidden branch logs and returns.
ForbiddenState(c) ==
    /\ pc[c] = "change_state"
    /\ IsForbidden(rd[c], call[c].forbidden_initial_state)
    /\ Returned(c, call[c].after)
    /\ UNCHANGED <<remote, call, loc, ret, sent, hist>>

\* lines 122-127: the write; any status is logged and the call returns.
PostState(c, refuse) ==
    /\ pc[c] = "change_state"
    /\ ~IsForbidden(rd[c], call[c].forbidden_initial_state)
    /\ LET request_dict == [rd[c] EXCEPT !.component.state = call[c].state]
           id == Resource(call[c].url)
           accepted == Accepts(id, request_dict, refuse)
       IN  /\ Record(c, Write("POST", call[c].url, request_dict,
                              Status(accepted)))
           /\ state' = IF accepted
                       THEN [state EXCEPT ![id] = request_dict.component.state]
                       ELSE state
           /\ version' = IF accepted
                         THEN [version EXCEPT ![id] = @ + 1]
                         ELSE version
    /\ Returned(c, call[c].after)
    /\ UNCHANGED <<props, refs, names, listing, flowState, call, loc, ret,
                   hist>>

\* The frame of a change_state call.
change_state(method, url, new_state, forbidden_initial_state, after) ==
    [method |-> method, url |-> url, state |-> new_state,
     forbidden_initial_state |-> forbidden_initial_state, after |-> after]

(***************************************************************************)
(* Processor.start/stop/enable/disable (263-277) and                       *)
(* ControllerService.enable/disable (309-315).                             *)
(***************************************************************************)
ProcessorMethods == {"start", "stop", "enable", "disable"}

\* disable() forbidding the state that start() and stop() forbid.
ProcessorSameGuard(processor_id, method, after) ==
    change_state(method, ComponentUrl(PROCESSOR, processor_id),
                 CASE method = "start" -> "RUNNING"
                   [] method = "stop" -> "STOPPED"
                   [] method = "enable" -> "STOPPED"
                   [] method = "disable" -> "DISABLED",
                 IF method = "enable" THEN "RUNNING" ELSE "DISABLED", after)

ProcessorUnguarded(processor_id, method, after) ==
    change_state(method, ComponentUrl(PROCESSOR, processor_id),
                 CASE method = "start" -> "RUNNING"
                   [] method = "stop" -> "STOPPED"
                   [] method = "enable" -> "STOPPED"
                   [] method = "disable" -> "DISABLED",
                 None, after)

Processor(processor_id, method, after) ==
    CASE method = "start" ->
            change_state("start", ComponentUrl(PROCESSOR, processor_id),
                         "RUNNING", "DISABLED", after)
      [] method = "stop" ->
            change_state("stop", ComponentUrl(PROCESSOR, processor_id),
                         "STOPPED", "DISABLED", after)
      [] method = "enable" ->
            change_state("enable", ComponentUrl(PROCESSOR, processor_id),
                         "STOPPED", "RUNNING", after)
      [] method = "disable" ->
            change_state("disable", ComponentUrl(PROCESSOR, processor_id),
                         "DISABLED", "RUNNING", after)

ServiceMethods == {"enable", "disable"}

ControllerService(controller_service_id, method, after) ==
    CASE method = "enable" ->
            change_state("enable",
                         ComponentUrl(CONTROLLER_SERVICE, controller_service_id),
                         "ENABLED", None, after)
      [] method = "disable" ->
            change_state("disable",
                         ComponentUrl(CONTROLLER_SERVICE, controller_service_id),
                         "DISABLED", None, after)

\* A call enters change_state with its frame; the remote is not touched.
Enter(c, frame) ==
    /\ pc[c] = "idle"
    /\ call' = [call EXCEPT ![c] = frame]
    /\ pc' = [pc EXCEPT ![c] = "get_state"]
    /\ UNCHANGED <<remote, rd, loc, ret>>

\* What a started call found: the mark the scenarios are stated against.
Mark(c, frame) ==
    [client |-> c, call |-> frame, at |-> Len(sent[c]),
     state |-> state[Resource(frame.url)],
     version |-> version[Resource(frame.url)]]

\* Versions only grow: a call is started while the version is below the cap.
Capped(id) == version[id] < MaxVersion

\* A test's transport record starts empty at each call.
Fresh(c, frame) ==
    /\ Capped(Resource(frame.url))
    /\ sent' = [sent EXCEPT ![c] = <<>>]
    /\ hist' = <<[Mark(c, frame) EXCEPT !.at = 0]>>

CallChangeState(c) ==
    \E id \in {Proc, Svc}, new_state \in States,
       forbidden \in States \cup {None, ""} :
        LET frame == change_state("change_state",
                        ComponentUrl(IF id \in Procs THEN PROCESSOR
                                     ELSE CONTROLLER_SERVICE, id),
                        new_state, forbidden, "idle")
        IN  Enter(c, frame) /\ Fresh(c, frame)

CallProcessor(c) ==
    \E method \in ProcessorMethods :
        Enter(c, Processor(Proc, method, "idle"))
        /\ Fresh(c, Processor(Proc, method, "idle"))

CallService(c) ==
    \E method \in ServiceMethods :
        Enter(c, ControllerService(Svc, method, "idle"))
        /\ Fresh(c, ControllerService(Svc, method, "idle"))

(***************************************************************************)
(* FlowProcessGroup.start (203-207): one PUT of {"id", "state"}.           *)
(***************************************************************************)
FlowStart(group_id) ==
    [method |-> "FlowProcessGroup.start", url |-> ComponentUrl(FLOW, group_id),
     data |-> [id |-> group_id, state |-> "RUNNING"], after |-> "idle"]

CallFlowStart(c) ==
    /\ pc[c] = "idle"
    /\ call' = [call EXCEPT ![c] = FlowStart(Group)]
    /\ pc' = [pc EXCEPT ![c] = "flow_put"]
    /\ sent' = [sent EXCEPT ![c] = <<>>]
    /\ hist' = <<[client |-> c, call |-> FlowStart(Group), at |-> 0,
                  state |-> flowState, version |-> 0]>>
    /\ UNCHANGED <<remote, rd, loc, ret>>

FlowPut(c, refuse) ==
    /\ pc[c] = "flow_put"
    /\ Record(c, Write("PUT", call[c].url, call[c].data, Status(~refuse)))
    /\ flowState' = IF refuse THEN flowState ELSE call[c].data.state
    /\ pc' = [pc EXCEPT ![c] = call[c].after]
    /\ ret' = [ret EXCEPT ![c] = [status |-> Status(~refuse)]]
    /\ UNCHANGED <<state, version, props, refs, names, listing, call, rd,
                   loc, hist>>

(***************************************************************************)
(* The specification of single calls: one client constructs a connection   *)
(* and then makes calls one after the other, each against a fresh          *)
(* transport record.                                                       *)
(***************************************************************************)
QuietRemote ==
    /\ props = [n \in PropNames |-> "a"]
    /\ refs = <<>>
    /\ names = [s \in Services |-> "dbcp"]
    /\ listing = <<>>
    /\ flowState = "STOPPED"

NewClients ==
    /\ pc = [c \in Clients |-> "new"]
    /\ call = [c \in Clients |-> NoDict]
    /\ rd = [c \in Clients |-> NoDict]
    /\ loc = [c \in Clients |-> NoLoc]
    /\ ret = [c \in Clients |-> NoDict]
    /\ sent = [c \in Clients |-> <<>>]
    /\ hist = <<>>

RemoteStates ==
    {f \in [Components -> States] : \A id \in Components : f[id] \in StatesOf(id)}

\* The remote states in which only the components of `ids` vary.
RemoteInit(ids) ==
    /\ state \in {f \in RemoteStates :
                    \A id \in Components \ ids :
                        f[id] = IF id \in Procs THEN "STOPPED" ELSE "ENABLED"}
    /\ version \in {f \in [Components -> 0..MaxInitVersion] :
                      \A id \in Components \ ids : f[id] = 0}

Init ==
    /\ RemoteInit({Proc, Svc})
    /\ QuietRemote
    /\ NewClients

Next ==
    \/ Construct(Main)
    \/ CallChangeState(Main)
    \/ CallProcessor(Main)
    \/ CallService(Main)
    \/ CallFlowStart(Main)
    \/ GetState(Main)
    \/ ForbiddenState(Main)
    \/ \E refuse \in BOOLEAN : PostState(Main, refuse)
    \/ \E refuse \in BOOLEAN : FlowPut(Main, refuse)

Spec == Init /\ [][Next]_vars

(***************************************************************************)
(* Properties of single calls, under Spec.                                 *)
(***************************************************************************)
BaseUrl == COMPONENT_ENDPOINT_TEMPLATES(BASE, None)

\* The call of client c that is running or has just returned, if any.
InCall(c) ==
    /\ hist # <<>>
    /\ Last(hist).client = c
    /\ pc[c] \notin {"new", "failed"}

IsChangeState(c) ==
    /\ InCall(c)
    /\ "forbidden_initial_state" \in DOMAIN Last(hist).call

\* The call found the component in the state its caller forbids.
FoundForbidden(c) ==
    /\ IsChangeState(c)
    /\ Last(hist).call.forbidden_initial_state # None
    /\ Last(hist).state = Last(hist).call.forbidden_initial_state

\* C1: a change_state call whose forbidden_initial_state is supplied and
\* equals the component's current state issues no write at all, only the
\* one read, and leaves the remote state and version as it found them.
C1_ForbiddenIssuesNoWrite ==
    \A c \in Clients :
        FoundForbidden(c) =>
            LET mark == Last(hist)
                id == Resource(mark.call.url)
            IN  /\ \A i \in 1..Len(sent[c]) : ~IsWrite(sent[c][i])
                /\ Len(sent[c]) <= 1
                /\ pc[c] = "idle" =>
                       sent[c] = <<Get(mark.call.url, Ok(Entity(id)))>>
                /\ state[id] = mark.state
                /\ version[id] = mark.version

C1_Witness ==
    /\ FoundForbidden(Main)
    /\ pc[Main] = "idle"
    /\ Len(sent[Main]) = 1
    /\ Last(hist).version > 0

\* C2: a change_state call whose forbidden_initial_state is absent or differs
\* from the current state issues exactly one read followed by exactly one
\* write; the write carries the component id and the version that read
\* returned, with the new state; this is so whatever status answers the
\* write, and nothing is sent after it.
C2_OneReadThenOneWrite ==
    \A c \in Clients :
        (IsChangeState(c) /\ ~FoundForbidden(c)) =>
            LET mark == Last(hist)
                url == mark.call.url
                log == sent[c]
            IN  /\ Len(log) = CASE pc[c] = "get_state" -> 0
                                [] pc[c] = "change_state" -> 1
                                [] OTHER -> 2
                /\ Len(log) >= 1 =>
                      /\ log[1].verb = "GET"
                      /\ log[1].url = url
                      /\ log[1].resp.json.component.state = mark.state
                      /\ log[1].resp.json.revision.version = mark.version
                /\ Len(log) >= 2 =>
                      /\ log[2].verb = "POST"
                      /\ log[2].url = url
                      /\ log[2].data =
                            [component |-> [id |-> Resource(url),
                                            state |-> mark.call.state],
                             revision |->
                                [version |-> log[1].resp.json.revision.version]]
                      /\ log[2].resp.status \in {200, 409}

C2_Witness ==
    /\ IsChangeState(Main)
    /\ ~FoundForbidden(Main)
    /\ Last(hist).call.forbidden_initial_state \in States
    /\ pc[Main] = "idle"
    /\ Len(sent[Main]) = 2
    /\ sent[Main][2].resp.status = 409
    /\ sent[Main][2].data.revision.version > 0

\* C5: every state-changing call (Processor.start/stop/enable/disable,
\* ControllerService.enable/disable, FlowProcessGroup.start) reads the
\* version and then writes: each write it issues is immediately preceded,
\* within the call, by a read of the same object, and carries the version
\* that read returned.
C5_EveryWriteFollowsItsRead ==
    \A c \in Clients :
        \A i \in 1..Len(sent[c]) :
            IsWrite(sent[c][i]) =>
                /\ i > 1
                /\ sent[c][i - 1].verb = "GET"
                /\ sent[c][i - 1].url = sent[c][i].url
                /\ "revision" \in DOMAIN sent[c][i].data
                /\ sent[c][i].data.revision.version =
                       sent[c][i - 1].resp.json.revision.version

\* The connection of c has just been constructed (or has failed to be).
JustConstructed(c) ==
    /\ pc[c] \in {"idle", "failed"}
    /\ sent[c] # <<>>
    /\ sent[c][1].url = BaseUrl

Succeeded(resp) == ~resp.raised /\ resp.status \in 200..299

\* C6 as claimed: construction issues exactly one probe and fails with a
\* connection error whenever the probe does not succeed, be it that the
\* transport raised or that the server answered a non-success status.
C6_FailsUnlessProbeSucceeds ==
    \A c \in Clients :
        JustConstructed(c) =>
            /\ sent[c] = <<Get(BaseUrl, sent[c][1].resp)>>
            /\ pc[c] = "failed" <=> ~Succeeded(sent[c][1].resp)

\* C6 as amended: construction issues exactly one probe, GET {base}/nifi-api,
\* and fails with a connection error exactly when the transport raises on
\* it; any answer of the server, whatever its status, yields a connection.
\* A failed construction never issues another request.
C6_FailsWhenTransportRaises ==
    \A c \in Clients :
        /\ JustConstructed(c) =>
              /\ sent[c] = <<Get(BaseUrl, sent[c][1].resp)>>
              /\ BaseUrl = <<url_base, "nifi-api">>
              /\ pc[c] = "failed" <=> sent[c][1].resp.raised
        /\ pc[c] = "failed" => JustConstructed(c)
        /\ pc[c] = "new" => sent[c] = <<>>

C6_Witness ==
    /\ JustConstructed(Main)
    /\ pc[Main] = "idle"
    /\ sent[Main][1].resp.status = 404

(***************************************************************************)
(* The specification of a session: one client makes up to MaxCalls         *)
(* Processor calls in a row against one transport record, and the server   *)
(* accepts every write that carries the current version.                   *)
(***************************************************************************)
CallProcessorInSession(c) ==
    \E method \in ProcessorMethods :
        /\ Len(hist) < MaxCalls
        /\ Enter(c, Processor(Proc, method, "idle"))
        /\ hist' = Append(hist, Mark(c, Processor(Proc, method, "idle")))
        /\ UNCHANGED sent

InitSession ==
    /\ RemoteInit({Proc})
    /\ QuietRemote
    /\ NewClients

NextSession ==
    \/ Construct(Main)
    \/ CallProcessorInSession(Main)
    \/ GetState(Main)
    \/ ForbiddenState(Main)
    \/ PostState(Main, FALSE)

SpecSession == InitSession /\ [][NextSession]_vars

\* The i-th call of the session has returned.
Completed(i) == i < Len(hist) \/ pc[Main] = "idle"

\* The requests the i-th call issued.
RequestsOf(i) ==
    SubSeq(sent[Main], hist[i].at + 1,
           IF i < Len(hist) THEN hist[i + 1].at ELSE Len(sent[Main]))

\* What the server holds when the i-th call has returned.
StateAfter(i) == IF i < Len(hist) THEN hist[i + 1].state ELSE state[Proc]
VersionAfter(i) == IF i < Len(hist) THEN hist[i + 1].version ELSE version[Proc]

ReadThenPost(i, new_state, v) ==
    /\ Len(RequestsOf(i)) = 2
    /\ RequestsOf(i)[1].verb = "GET"
    /\ RequestsOf(i)[2].verb = "POST"
    /\ RequestsOf(i)[2].url = ComponentUrl(PROCESSOR, Proc)
    /\ RequestsOf(i)[2].data =
           [component |-> [id |-> Proc, state |-> new_state],
            revision |-> [version |-> v]]

\* C3: with no other client and a server that applies each accepted write
\* and then holds a new version: start() on a processor that is DISABLED at
\* version v issues no write and leaves it DISABLED at v; an enable() that
\* follows issues one write of STOPPED carrying v, and the processor becomes
\* STOPPED; a start() that follows the enable issues one write of RUNNING
\* carrying the version the server holds after the enable, which is not v,
\* and the processor becomes RUNNING.
C3_DisabledStartEnableStart ==
    \A i \in 1..Len(hist) :
        (/\ hist[i].call.method = "start"
         /\ hist[i].state = "DISABLED"
         /\ Completed(i)) =>
            LET v == hist[i].version IN
            /\ \A k \in 1..Len(RequestsOf(i)) : ~IsWrite(RequestsOf(i)[k])
            /\ StateAfter(i) = "DISABLED"
            /\ VersionAfter(i) = v
            /\ (/\ i + 1 <= Len(hist)
                /\ hist[i + 1].call.method = "enable"
                /\ Completed(i + 1)) =>
                   /\ ReadThenPost(i + 1, "STOPPED", v)
                   /\ StateAfter(i + 1) = "STOPPED"
                   /\ VersionAfter(i + 1) # v
                   /\ (/\ i + 2 <= Len(hist)
                       /\ hist[i + 2].call.method = "start"
                       /\ Completed(i + 2)) =>
                          /\ ReadThenPost(i + 2, "RUNNING", VersionAfter(i + 1))
                          /\ StateAfter(i + 2) = "RUNNING"

C3_Witness ==
    /\ Len(hist) = 3
    /\ pc[Main] = "idle"
    /\ hist[1].call.method = "start"
    /\ hist[1].state = "DISABLED"
    /\ hist[1].version = 1
    /\ hist[2].call.method = "enable"
    /\ hist[3].call.method = "start"
    /\ state[Proc] = "RUNNING"
    /\ Len(sent[Main]) = 6

(***************************************************************************)
(* The specification of concurrent Processor calls: every client makes     *)
(* start/stop/enable/disable calls on the same processor, interleaved      *)
(* between requests; the server accepts a write only when it carries the   *)
(* current version.                                                        *)
(***************************************************************************)
CallProcessorConcurrently(c) ==
    \E method \in ProcessorMethods :
        /\ Capped(Proc)
        /\ Enter(c, Processor(Proc, method, "idle"))
        /\ sent' = [sent EXCEPT ![c] = <<>>]
        /\ UNCHANGED hist

NextRace ==
    \E c \in Clients :
        \/ Construct(c)
        \/ CallProcessorConcurrently(c)
        \/ GetState(c)
        \/ ForbiddenState(c)
        \/ PostState(c, FALSE)

SpecRace == InitSession /\ [][NextRace]_vars

\* C10: under every interleaving of the clients' Processor calls, the
\* processor never goes directly from DISABLED to RUNNING nor from RUNNING to
\* DISABLED: every accepted write of RUNNING or of DISABLED finds it STOPPED
\* or already in the written state.
C10_NoDirectJump ==
    [][/\ state[Proc] = "DISABLED" => state'[Proc] # "RUNNING"
       /\ state[Proc] = "RUNNING" => state'[Proc] # "DISABLED"
       /\ (version'[Proc] # version[Proc]
           /\ state'[Proc] \in {"RUNNING", "DISABLED"}) =>
              state[Proc] \in {"STOPPED", state'[Proc]}]_vars

\* A start that read STOPPED lost the race against a disable: its write was
\* answered 409 and the processor is DISABLED.
C10_Witness ==
    \E c \in Clients :
        /\ pc[c] = "idle"
        /\ Len(sent[c]) = 2
        /\ call[c].method = "start"
        /\ sent[c][1].resp.json.component.state = "STOPPED"
        /\ sent[c][2].resp.status = 409
        /\ state[Proc] = "DISABLED"

(***************************************************************************)
(* NifiConnection.get_referencing_components (129-143) and the             *)
(* ControllerService calls built on it (300-326).                          *)
(***************************************************************************)
\* lines 132-135: the (id, referenceType) pair of every entry.
referencing_component_infos(referencing_component_dicts) ==
    [i \in 1..Len(referencing_component_dicts) |->
        <<referencing_component_dicts[i].component.id,
          referencing_component_dicts[i].component.referenceType>>]

RECURSIVE referencing_processors_unfiltered(_)
referencing_processors_unfiltered(infos) ==
    IF infos = <<>> THEN <<>>
    ELSE <<Head(infos)[1]>> \o referencing_processors_unfiltered(Tail(infos))

\* lines 136-139: a Processor handle for every pair of type "Processor".
RECURSIVE referencing_processors(_)
referencing_processors(infos) ==
    IF infos = <<>> THEN <<>>
    ELSE IF Head(infos)[2] = PROCESSOR
         THEN <<Head(infos)[1]>> \o referencing_processors(Tail(infos))
         ELSE referencing_processors(Tail(infos))

get_referencing_components(url) ==
    referencing_processors(
        referencing_component_infos(
            get_info(url).component.referencingComponents))

\* A call of get_referencing_components on the service itself.
CallGetReferencing(c) ==
    /\ pc[c] = "idle"
    /\ call' = [call EXCEPT ![c] =
                   [method |-> "get_referencing_components",
                    url |-> ComponentUrl(CONTROLLER_SERVICE, Svc)]]
    /\ loc' = [loc EXCEPT ![c] = [method |-> None, step |-> 0]]
    /\ pc' = [pc EXCEPT ![c] = "get_referencing_components"]
    /\ sent' = [sent EXCEPT ![c] = <<>>]
    /\ hist' = <<[Mark(c, [method |-> "get_referencing_components",
                           url |-> ComponentUrl(CONTROLLER_SERVICE, Svc)])
                  EXCEPT !.at = 0]>>
    /\ UNCHANGED <<remote, rd, ret>>

\* The one read of get_referencing_components; inside stop_/start_
\* referencing_components (303-307) the list is then iterated.
GetReferencingComponents(c) ==
    /\ pc[c] = "get_referencing_components"
    /\ LET url == ComponentUrl(CONTROLLER_SERVICE, Svc) IN
          /\ Record(c, Get(url, Ok(get_info(url))))
          /\ IF loc[c].method = None
             THEN /\ ret' = [ret EXCEPT ![c] = get_referencing_components(url)]
                  /\ pc' = [pc EXCEPT ![c] = "idle"]
                  /\ loc' = [loc EXCEPT ![c] = NoLoc]
             ELSE /\ loc' = [loc EXCEPT ![c] =
                                [method |-> @.method, step |-> @.step,
                                 components |-> get_referencing_components(url),
                                 i |-> 1]]
                  /\ pc' = [pc EXCEPT ![c] = "for_component"]
                  /\ UNCHANGED ret
    /\ UNCHANGED <<remote, call, rd, hist>>

\* [component.stop() for component in ...]: the next component's call, or
\* the end of the list.
ForComponent(c) ==
    /\ pc[c] = "for_component"
    /\ IF loc[c].i <= Len(loc[c].components)
       THEN /\ call' = [call EXCEPT ![c] =
                           Processor(loc[c].components[loc[c].i],
                                     loc[c].method, "for_component")]
            /\ loc' = [loc EXCEPT ![c].i = @ + 1]
            /\ pc' = [pc EXCEPT ![c] = "get_state"]
       ELSE /\ pc' = [pc EXCEPT ![c] = "restart"]
            /\ UNCHANGED <<call, loc>>
    /\ UNCHANGED <<remote, rd, ret, sent, hist>>

\* ControllerService.restart (317-326), the sleeps left out.
restart_enable_first ==
    <<"stop_referencing_components", "enable", "disable",
      "start_referencing_components">>

restart ==
    <<"stop_referencing_components", "disable", "enable",
      "start_referencing_components">>

CallRestart(c) ==
    /\ pc[c] = "idle"
    /\ \A id \in Procs \cup {Svc} : Capped(id)
    /\ call' = [call EXCEPT ![c] =
                   [method |-> "restart",
                    url |-> ComponentUrl(CONTROLLER_SERVICE, Svc)]]
    /\ loc' = [loc EXCEPT ![c] = [method |-> "restart", step |-> 1]]
    /\ pc' = [pc EXCEPT ![c] = "restart"]
    /\ sent' = [sent EXCEPT ![c] = <<>>]
    /\ hist' = <<[Mark(c, [method |-> "restart",
                           url |-> ComponentUrl(CONTROLLER_SERVICE, Svc)])
                  EXCEPT !.at = 0]>>
    /\ UNCHANGED <<remote, rd, ret>>

RestartStep(c) ==
    /\ pc[c] = "restart"
    /\ IF loc[c].step > Len(restart)
       THEN /\ pc' = [pc EXCEPT ![c] = "idle"]
            /\ loc' = [loc EXCEPT ![c] = NoLoc]
            /\ UNCHANGED call
       ELSE LET statement == restart[loc[c].step] IN
            IF statement = "stop_referencing_components"
            THEN /\ loc' = [loc EXCEPT ![c] =
                               [method |-> "stop", step |-> @.step + 1]]
                 /\ pc' = [pc EXCEPT ![c] = "get_referencing_components"]
                 /\ UNCHANGED call
            ELSE IF statement = "start_referencing_components"
            THEN /\ loc' = [loc EXCEPT ![c] =
                               [method |-> "start", step |-> @.step + 1]]
                 /\ pc' = [pc EXCEPT ![c] = "get_referencing_components"]
                 /\ UNCHANGED call
            ELSE /\ call' = [call EXCEPT ![c] =
                                ControllerService(Svc, statement, "restart")]
                 /\ loc' = [loc EXCEPT ![c] =
                               [method |-> "restart", step |-> @.step + 1]]
                 /\ pc' = [pc EXCEPT ![c] = "get_state"]
    /\ UNCHANGED <<remote, rd, ret, sent, hist>>

(***************************************************************************)
(* The specification of the controller service's dependents: one client    *)
(* lists the referencing components and restarts the service.              *)
(***************************************************************************)
ReferenceEntries ==
    {[id |-> p, referenceType |-> PROCESSOR] : p \in Procs} \cup
    {[id |-> "s2", referenceType |-> "ControllerService"]}

RECURSIVE SeqsUpTo(_, _)
SeqsUpTo(S, n) ==
    IF n = 0 THEN {<<>>}
    ELSE LET shorter == SeqsUpTo(S, n - 1) IN
         shorter \cup {Append(q, x) : q \in shorter, x \in S}

InitReferences ==
    /\ RemoteInit(Procs \cup {Svc})
    /\ \E v \in 0..MaxInitVersion : \A id \in Procs \cup {Svc} : version[id] = v
    /\ props = [n \in PropNames |-> "a"]
    /\ refs \in SeqsUpTo(ReferenceEntries, MaxRefs)
    /\ names = [s \in Services |-> "dbcp"]
    /\ listing = <<>>
    /\ flowState = "STOPPED"
    /\ NewClients

NextReferences ==
    \/ Construct(Main)
    \/ CallGetReferencing(Main)
    \/ CallRestart(Main)
    \/ RestartStep(Main)
    \/ GetReferencingComponents(Main)
    \/ ForComponent(Main)
    \/ GetState(Main)
    \/ ForbiddenState(Main)
    \/ PostState(Main, FALSE)

SpecReferences == InitReferences /\ [][NextReferences]_vars

\* The positions of the list that hold a reference of type "Processor", and
\* the ids at these positions in the order of the list.
ProcessorPositions == {i \in 1..Len(refs) : refs[i].referenceType = "Processor"}
KthProcessor(k) ==
    CHOOSE i \in ProcessorPositions :
        Cardinality({j \in ProcessorPositions : j <= i}) = k
ReferencingProcessors ==
    [k \in 1..Cardinality(ProcessorPositions) |-> refs[KthProcessor(k)].id]

Running(c, method) ==
    /\ hist # <<>>
    /\ Last(hist).client = c
    /\ Last(hist).call.method = method
    /\ pc[c] \notin {"new", "failed"}

\* The writes of a record, each as (component id, state written).
RECURSIVE WritesOf(_)
WritesOf(log) ==
    IF log = <<>> THEN <<>>
    ELSE IF IsWrite(Head(log))
         THEN <<<<Resource(Head(log).url), Head(log).data.component.state>>>>
              \o WritesOf(Tail(log))
         ELSE WritesOf(Tail(log))

RestartWrites ==
    [k \in 1..Len(ReferencingProcessors) |-> <<ReferencingProcessors[k], "STOPPED">>]
    \o <<<<Svc, "DISABLED">>, <<Svc, "ENABLED">>>>
    \o [k \in 1..Len(ReferencingProcessors) |-> <<ReferencingProcessors[k], "RUNNING">>]

\* C4: restart() of a service whose referencing processors are not DISABLED
\* issues its writes in exactly this order: STOPPED to every referencing
\* processor in list order, DISABLED to the service, ENABLED to the service,
\* RUNNING to every referencing processor in list order, and no other write.
C4_RestartOrder ==
    \A c \in Clients :
        (/\ Running(c, "restart")
         /\ \A k \in 1..Len(ReferencingProcessors) :
                state[ReferencingProcessors[k]] # "DISABLED") =>
            LET writes == WritesOf(sent[c]) IN
            /\ Len(writes) <= Len(RestartWrites)
            /\ writes = SubSeq(RestartWrites, 1, Len(writes))
            /\ pc[c] = "idle" => writes = RestartWrites

C4_Witness ==
    /\ Running(Main, "restart")
    /\ pc[Main] = "idle"
    /\ Len(ReferencingProcessors) = 2
    /\ ReferencingProcessors[1] # ReferencingProcessors[2]
    /\ WritesOf(sent[Main]) = RestartWrites
    /\ Len(WritesOf(sent[Main])) = 6

\* C7: get_referencing_components returns exactly the entries of the
\* referencingComponents list whose referenceType is "Processor", as
\* Processor handles with the same ids in the same relative order, and issues
\* one read and no write.
C7_OnlyProcessorsInOrder ==
    \A c \in Clients :
        (Running(c, "get_referencing_components") /\ pc[c] = "idle") =>
            /\ ret[c] = ReferencingProcessors
            /\ sent[c] = <<Get(ComponentUrl(CONTROLLER_SERVICE, Svc),
                               Ok(Entity(Svc)))>>

C7_Witness ==
    /\ Running(Main, "get_referencing_components")
    /\ pc[Main] = "idle"
    /\ Len(refs) = 3
    /\ refs[2].referenceType # "Processor"
    /\ Len(ret[Main]) = 2
    /\ ret[Main][1] # ret[Main][2]

(***************************************************************************)
(* FlowProcessGroup.get_controller_services (179-192),                     *)
(* get_controller_service_by_name (194-201), ControllerService.get_name    *)
(* (293-298).                                                              *)
(***************************************************************************)
ListingJson ==
    [controllerServices |->
        [i \in 1..Len(listing) |-> [component |-> [id |-> listing[i]]]]]

\* lines 183-190: a ControllerService handle for every listed id.
get_controller_services(response_json) ==
    [i \in 1..Len(response_json.controllerServices) |->
        response_json.controllerServices[i].component.id]

get_name(cs) == get_info(ComponentUrl(CONTROLLER_SERVICE, cs)).component.name

first_match(controller_service, cs, cs_name, name) ==
    IF cs_name = name /\ controller_service = None
    THEN cs ELSE controller_service

\* lines 198-199: the loop body's assignment.
match(controller_service, cs, cs_name, name) ==
    IF cs_name = name THEN cs ELSE controller_service

CallByName(c) ==
    /\ pc[c] = "idle"
    /\ \E name \in Names \cup {"jms"} :
          /\ call' = [call EXCEPT ![c] =
                         [method |-> "get_controller_service_by_name",
                          name |-> name,
                          url |-> ControllerServicesUrl(Group)]]
          /\ hist' = <<[client |-> c, at |-> 0,
                        call |-> [method |-> "get_controller_service_by_name",
                                  name |-> name,
                                  url |-> ControllerServicesUrl(Group)],
                        state |-> flowState, version |-> 0]>>
    /\ pc' = [pc EXCEPT ![c] = "get_controller_services"]
    /\ sent' = [sent EXCEPT ![c] = <<>>]
    /\ UNCHANGED <<remote, rd, loc, ret>>

\* line 195 (179-192): the listing is read and the handles are built.
GetControllerServices(c) ==
    /\ pc[c] = "get_controller_services"
    /\ Record(c, Get(call[c].url, Ok(ListingJson)))
    /\ loc' = [loc EXCEPT ![c] =
                  [controller_services |-> get_controller_services(ListingJson),
                   i |-> 1, controller_service |-> None]]
    /\ pc' = [pc EXCEPT ![c] = "for_cs"]
    /\ UNCHANGED <<remote, call, rd, ret, hist>>

\* lines 197-200: one iteration, with get_name's read of the service.
GetName(c) ==
    /\ pc[c] = "for_cs"
    /\ loc[c].i <= Len(loc[c].controller_services)
    /\ LET cs == loc[c].controller_services[loc[c].i]
           url == ComponentUrl(CONTROLLER_SERVICE, cs)
       IN  /\ Record(c, Get(url, Ok(get_info(url))))
           /\ loc' = [loc EXCEPT
                        ![c].controller_service =
                            match(@, cs, get_name(cs), call[c].name),
                        ![c].i = @ + 1]
    /\ UNCHANGED <<remote, pc, call, rd, ret, hist>>

\* line 201: return controller_service.
ReturnByName(c) ==
    /\ pc[c] = "for_cs"
    /\ loc[c].i > Len(loc[c].controller_services)
    /\ ret' = [ret EXCEPT ![c] = loc[c].controller_service]
    /\ loc' = [loc EXCEPT ![c] = NoLoc]
    /\ pc' = [pc EXCEPT ![c] = "idle"]
    /\ UNCHANGED <<remote, call, rd, sent, hist>>

InitListing ==
    /\ RemoteInit({})
    /\ props = [n \in PropNames |-> "a"]
    /\ refs = <<>>
    /\ names \in [Services -> Names]
    /\ listing \in SeqsUpTo(Services, MaxListing)
    /\ flowState = "STOPPED"
    /\ NewClients

NextListing ==
    \/ Construct(Main)
    \/ CallByName(Main)
    \/ GetControllerServices(Main)
    \/ GetName(Main)
    \/ ReturnByName(Main)

SpecListing == InitListing /\ [][NextListing]_vars

Matches(name) == {i \in 1..Len(listing) : names[listing[i]] = name}

\* C8: get_controller_service_by_name(n) returns the handle of the last entry
\* of the listing, in listing order, whose name is n, and None when no entry
\* has that name.
C8_LastMatchWins ==
    \A c \in Clients :
        (Running(c, "get_controller_service_by_name") /\ pc[c] = "idle") =>
            LET name == Last(hist).call.name IN
            IF Matches(name) = {}
            THEN ret[c] = None
            ELSE \E i \in Matches(name) :
                    /\ \A j \in Matches(name) : j <= i
                    /\ ret[c] = listing[i]

C8_Witness ==
    /\ Running(Main, "get_controller_service_by_name")
    /\ pc[Main] = "idle"
    /\ Len(listing) = 3
    /\ Matches(Last(hist).call.name) = {1, 3}
    /\ listing[1] # listing[3]
    /\ ret[Main] = listing[3]

C8_WitnessNone ==
    /\ Running(Main, "get_controller_service_by_name")
    /\ pc[Main] = "idle"
    /\ Len(listing) = 2
    /\ ret[Main] = None

(***************************************************************************)
(* ControllerService.update_property (328-335), called by two clients on   *)
(* the same service; the server accepts a write only when it carries the   *)
(* current version.                                                        *)
(***************************************************************************)
\* Python's d[k] = v.
SetItem(d, k, v) == [x \in DOMAIN d \cup {k} |-> IF x = k THEN v ELSE d[x]]

\* lines 332-333: the entity read, with the one property set.
updated(controller_service, property, value) ==
    [controller_service EXCEPT
        !.component.properties = SetItem(@, property, value)]

CallUpdateProperty(c) ==
    /\ pc[c] = "idle"
    /\ Capped(Svc)
    /\ \E property \in PropNames, value \in Values :
          call' = [call EXCEPT ![c] =
                      [method |-> "update_property", property |-> property,
                       value |-> value,
                       url |-> ComponentUrl(CONTROLLER_SERVICE, Svc)]]
    /\ pc' = [pc EXCEPT ![c] = "update_get"]
    /\ sent' = [sent EXCEPT ![c] = <<>>]
    /\ UNCHANGED <<remote, rd, loc, ret, hist>>

\* lines 331-333
UpdateGet(c) ==
    /\ pc[c] = "update_get"
    /\ Record(c, Get(call[c].url, Ok(get_info(call[c].url))))
    /\ rd' = [rd EXCEPT ![c] =
                 updated(get_info(call[c].url), call[c].property,
                         call[c].value)]
    /\ pc' = [pc EXCEPT ![c] = "update_put"]
    /\ UNCHANGED <<remote, call, loc, ret, hist>>

put_data_refreshed(c) == [rd[c] EXCEPT !.revision.version = version[Svc]]

\* line 334: json.dumps(controller_service)
put_data(c) == rd[c]

\* lines 334-335: the write; the response is returned as it is.
UpdatePut(c) ==
    /\ pc[c] = "update_put"
    /\ LET data == put_data(c)
           accepted == Accepts(Svc, data, FALSE)
       IN  /\ Record(c, Write("PUT", call[c].url, data, Status(accepted)))
           /\ props' = IF accepted THEN data.component.properties ELSE props
           /\ version' = IF accepted
                         THEN [version EXCEPT ![Svc] = @ + 1]
                         ELSE version
           /\ ret' = [ret EXCEPT ![c] = [status |-> Status(accepted)]]
    /\ Returned(c, "idle")
    /\ UNCHANGED <<state, refs, names, listing, flowState, call, loc, hist>>

InitUpdate ==
    /\ RemoteInit({Svc})
    /\ props \in [PropNames -> Values]
    /\ refs = <<>>
    /\ names = [s \in Services |-> "dbcp"]
    /\ listing = <<>>
    /\ flowState = "STOPPED"
    /\ NewClients

\* The two callers whose calls interleave.
Writers == {c \in Clients : c <= Main + 1}

NextUpdate ==
    \E c \in Writers :
        \/ Construct(c)
        \/ CallUpdateProperty(c)
        \/ UpdateGet(c)
        \/ UpdatePut(c)

SpecUpdate == InitUpdate /\ [][NextUpdate]_vars

Updating(c) ==
    /\ pc[c] \in {"update_get", "update_put", "idle"}
    /\ "property" \in DOMAIN call[c]

UpdateDone(c) == Updating(c) /\ pc[c] = "idle"

ReadBy(c) == sent[c][1].resp.json

\* C9: update_property(name, value) issues exactly one read followed by
\* exactly one write, whose body is the entity just read, revision version
\* included, with only properties[name] replaced by value.  Hence, of two
\* calls that both read before either writes, exactly one edit is applied;
\* the other is rejected and not retried, and no property but the accepted
\* caller's is changed.
C9_ReadModifyWrite ==
    /\ \A c \in Clients :
          Updating(c) =>
              /\ Len(sent[c]) = CASE pc[c] = "update_get" -> 0
                                  [] pc[c] = "update_put" -> 1
                                  [] OTHER -> 2
              /\ Len(sent[c]) >= 1 =>
                     /\ sent[c][1].verb = "GET"
                     /\ sent[c][1].url = call[c].url
              /\ Len(sent[c]) = 2 =>
                     /\ sent[c][2].verb = "PUT"
                     /\ sent[c][2].url = call[c].url
                     /\ sent[c][2].data.revision = ReadBy(c).revision
                     /\ \A f \in DOMAIN ReadBy(c).component \ {"properties"} :
                            sent[c][2].data.component[f] = ReadBy(c).component[f]
                     /\ \A n \in PropNames :
                            sent[c][2].data.component.properties[n] =
                                IF n = call[c].property THEN call[c].value
                                ELSE ReadBy(c).component.properties[n]
    /\ \A c, d \in Clients :
          (/\ c # d
           /\ UpdateDone(c)
           /\ UpdateDone(d)
           /\ ReadBy(c).revision.version = ReadBy(d).revision.version) =>
              /\ {sent[c][2].resp.status, sent[d][2].resp.status} = {200, 409}
              /\ (/\ sent[c][2].resp.status = 200
                  /\ version[Svc] = ReadBy(c).revision.version + 1) =>
                     \A n \in PropNames :
                         props[n] = IF n = call[c].property THEN call[c].value
                                    ELSE ReadBy(c).component.properties[n]

C9_Witness ==
    \E c, d \in Clients :
        /\ c # d
        /\ UpdateDone(c)
        /\ UpdateDone(d)
        /\ ReadBy(c).revision.version = ReadBy(d).revision.version
        /\ call[c].property # call[d].property
        /\ sent[c][2].resp.status = 200
        /\ sent[d][2].resp.status = 409
        /\ props[call[d].property] # call[d].value
        /\ props[call[c].property] = call[c].value

=============================================================================
